---- MODULE Spec2Model ----
(***************************************************************************)
(* A model of app.py: the TOPSIS scorer run_topsis, the request handler    *)
(* index() with its mail helper send_email_with_csv, the handler           *)
(* download(), and the process-wide buffer LAST_RESULT_CSV.                *)
(*                                                                         *)
(* Floating point is modelled in fixed point: a real r is the integer      *)
(* floor(r * Scale).  The criterion values and the weights are integers.   *)
(* A non-finite float (the 0/0 of numpy, which warns and yields nan) is    *)
(* the value NaN, and it propagates through every operation as in numpy.   *)
(***************************************************************************)
EXTENDS Integers, Sequences, FiniteSets, TLC

\* ---------------------------------------------------------------- bounds
MaxRows == 4
MaxCols == 2
MaxCells == 4
MaxVal == 2
Scale == 1000

\* ------------------------------------------------------- program constants
LastResultInit == <<>>
NaN == -1
NonNumeric == -2

\* ----------------------------------------------------------- arithmetic
RECURSIVE SumSeq(_)
SumSeq(s) == IF s = <<>> THEN 0 ELSE Head(s) + SumSeq(Tail(s))

RECURSIVE SqrtIter(_, _)
SqrtIter(n, r) ==
    LET r2 == (r + (n \div r)) \div 2
    IN IF r2 >= r THEN r ELSE SqrtIter(n, r2)

\* floor of the square root (Newton's iteration from above)
ISqrt(n) == IF n = 0 THEN 0 ELSE SqrtIter(n, n)

HasNaN(s) == \E k \in 1..Len(s) : s[k] = NaN

\* np.sqrt(x.sum()): nan if any term is nan
FSqrtSum(s) == IF HasNaN(s) THEN NaN ELSE ISqrt(SumSeq(s))

\* a / b on floats whose numerator is 0 whenever the denominator is: 0/0 is nan
FDiv(a, b) ==
    IF a = NaN \/ b = NaN \/ b = 0 THEN NaN ELSE (a * Scale) \div b

FMul(a, w) == IF a = NaN THEN NaN ELSE a * w

FSqDiff(a, b) == IF a = NaN \/ b = NaN THEN NaN ELSE (a - b) * (a - b)

\* ndarray.max() / ndarray.min(): nan if any element is nan
FMax(s) ==
    IF HasNaN(s) THEN NaN
    ELSE CHOOSE x \in {s[k] : k \in 1..Len(s)} : \A k \in 1..Len(s) : s[k] <= x

FMin(s) ==
    IF HasNaN(s) THEN NaN
    ELSE CHOOSE x \in {s[k] : k \in 1..Len(s)} : \A k \in 1..Len(s) : x <= s[k]

\* ------------------------------------------------------------ run_topsis
\* A DataFrame: ncols criterion columns after the identifier column, and the
\* rows' criterion cells (an integer, or NonNumeric for a cell that is no
\* number).  The identifier of a row is its position in the upload.
NRows(df) == Len(df.rows)

\* line 114: df.iloc[:, 1:].astype(float) raises on a non-numeric cell
AsTypeFloatRaises(df) ==
    \E i \in 1..NRows(df) : \E j \in 1..df.ncols : df.rows[i][j] = NonNumeric

\* line 118: norm = np.sqrt((data ** 2).sum(axis=0))
Norm(df) ==
    [j \in 1..df.ncols |->
        ISqrt(SumSeq([i \in 1..NRows(df) |-> df.rows[i][j] * df.rows[i][j]])
              * Scale * Scale)]

\* line 119: norm_data = data / norm
NormData(df, norm) ==
    [i \in 1..NRows(df) |->
        [j \in 1..df.ncols |-> FDiv(df.rows[i][j] * Scale, norm[j])]]

\* line 120: numpy broadcasts an (n, m) array against a (k,) array when
\* m = k, m = 1 or k = 1, and raises otherwise
BroadcastRaises(m, k) == ~(m = k \/ m = 1 \/ k = 1)

WeightedCols(m, k) == IF m = k \/ k = 1 THEN m ELSE k

\* line 120: weighted = norm_data * weights
Weighted(norm_data, m, weights) ==
    [i \in 1..Len(norm_data) |->
        [j \in 1..WeightedCols(m, Len(weights)) |->
            FMul(norm_data[i][IF m = 1 THEN 1 ELSE j],
                 weights[IF Len(weights) = 1 THEN 1 ELSE j])]]

WeightedColumn(weighted, j) == [i \in 1..Len(weighted) |-> weighted[i][j]]

\* lines 124-130: the loop indexes column i of weighted for every impact; it
\* raises IndexError past the last column, and ValueError on max() of an
\* empty column
IdealLoopRaises(nrows, wcols, impacts) ==
    Len(impacts) > 0 /\ (nrows = 0 \/ wcols = 0 \/ Len(impacts) > wcols)

\* lines 122-130: columns the loop does not reach keep np.zeros' 0
IdealBest(weighted, wcols, impacts) ==
    [j \in 1..wcols |->
        IF j > Len(impacts) THEN 0
        ELSE IF impacts[j] = "+" THEN FMax(WeightedColumn(weighted, j))
        ELSE FMin(WeightedColumn(weighted, j))]

IdealWorst(weighted, wcols, impacts) ==
    [j \in 1..wcols |->
        IF j > Len(impacts) THEN 0
        ELSE IF impacts[j] = "+" THEN FMin(WeightedColumn(weighted, j))
        ELSE FMax(WeightedColumn(weighted, j))]

\* lines 132-133: np.sqrt(((weighted - ideal) ** 2).sum(axis=1))
Separation(weighted, wcols, ideal) ==
    [i \in 1..Len(weighted) |->
        FSqrtSum([j \in 1..wcols |-> FSqDiff(weighted[i][j], ideal[j])])]

ScoreNegOverPos(s_pos, s_neg) == FDiv(s_neg, s_pos)

\* line 134: score = s_neg / (s_pos + s_neg), elementwise
Score(s_pos, s_neg) ==
    IF s_pos = NaN \/ s_neg = NaN THEN NaN ELSE FDiv(s_neg, s_pos + s_neg)

Scores(s_pos, s_neg) == [i \in 1..Len(s_pos) |-> Score(s_pos[i], s_neg[i])]

RankAscending(score, i) ==
    LET less == Cardinality({k \in 1..Len(score) : score[k] < score[i]})
        ties == Cardinality({k \in 1..Len(score) : score[k] = score[i]})
    IN IF score[i] = NaN THEN NaN ELSE (2 * less + ties + 1) \div 2

\* line 138: Series.rank(ascending=False) gives each score the average of the
\* positions its tie group takes in descending order, greater + (ties + 1) / 2,
\* and nan to a nan score; astype(int) then truncates
Rank(score, i) ==
    LET greater == Cardinality({k \in 1..Len(score) : score[k] > score[i]})
        ties == Cardinality({k \in 1..Len(score) : score[k] = score[i]})
    IN IF score[i] = NaN THEN NaN ELSE (2 * greater + ties + 1) \div 2

Ranks(score) == [i \in 1..Len(score) |-> Rank(score, i)]

AsTypeIntFillsNa(rank) == FALSE

\* line 138: astype(int) raises on a nan rank
AsTypeIntRaises(rank) == HasNaN(rank)

\* line 139: sort_values("Rank"), rows of equal rank in their original order
\* (numpy's quicksort is an insertion sort on arrays this short)
SortPosition(rank, i) ==
    1 + Cardinality({k \in 1..Len(rank) :
                        rank[k] < rank[i] \/ (rank[k] = rank[i] /\ k < i)})

\* lines 136-139: df_out, one row per option: its identifier, its criterion
\* values, its score and its rank
SortByRank(df, score, rank) ==
    [p \in 1..Len(rank) |->
        LET i == CHOOSE k \in 1..Len(rank) : SortPosition(rank, k) = p
        IN [id |-> i, values |-> df.rows[i],
            score |-> score[i], rank |-> rank[i]]]

\* What a call of run_topsis leaves: whether it raised, the table it returned,
\* and its locals s_pos, s_neg and score (lines 132-134) if it got that far
Raised ==
    [raised |-> TRUE, table |-> <<>>, s_pos |-> <<>>, s_neg |-> <<>>,
     score |-> <<>>]

\* lines 136-140
RankAndSort(df, s_pos, s_neg, score, rank) ==
    IF AsTypeIntRaises(rank)
    THEN [raised |-> TRUE, table |-> <<>>, s_pos |-> s_pos, s_neg |-> s_neg,
          score |-> score]
    ELSE [raised |-> FALSE, table |-> SortByRank(df, score, rank),
          s_pos |-> s_pos, s_neg |-> s_neg, score |-> score]

\* lines 132-140
ScoreAndRank(df, s_pos, s_neg) ==
    RankAndSort(df, s_pos, s_neg, Scores(s_pos, s_neg),
                Ranks(Scores(s_pos, s_neg)))

\* lines 122-140
IdealsAndScore(df, weighted, wcols, impacts) ==
    IF IdealLoopRaises(NRows(df), wcols, impacts) THEN Raised
    ELSE ScoreAndRank(df,
             Separation(weighted, wcols, IdealBest(weighted, wcols, impacts)),
             Separation(weighted, wcols, IdealWorst(weighted, wcols, impacts)))

\* lines 113-140; weights are numbers, impacts are strings
run_topsis(df, weights, impacts) ==
    IF AsTypeFloatRaises(df) THEN Raised
    ELSE IF BroadcastRaises(df.ncols, Len(weights)) THEN Raised
    ELSE IdealsAndScore(df,
             Weighted(NormData(df, Norm(df)), df.ncols, weights),
             WeightedCols(df.ncols, Len(weights)), impacts)

\* ------------------------------------------------- index(): the pieces
None == "None"

NoFrame == [ncols |-> 0, rows |-> <<>>]

\* lines 182-196: the upload is missing (no file part, or an empty filename),
\* is empty, makes pd.read_csv raise, or parses into a DataFrame
ReadUpload(file) ==
    IF file.kind = "missing"
    THEN [error |-> TRUE, message |-> "Please upload a CSV file.", df |-> NoFrame]
    ELSE IF file.kind \in {"empty", "garbled"}
    THEN [error |-> TRUE, message |-> "CSV error", df |-> NoFrame]
    ELSE [error |-> FALSE, message |-> None,
          df |-> [ncols |-> file.ncols, rows |-> file.rows]]

\* line 200: float(x) of one comma-separated field
IsFloat(tok) == tok \in {"0", "1", "2"}

FloatOf(tok) == CASE tok = "0" -> 0 [] tok = "1" -> 1 [] tok = "2" -> 2

\* line 201: x.strip()
Strip(tok) ==
    CASE tok = " +" -> "+" [] tok = " -" -> "-" [] tok = " " -> ""
      [] OTHER -> tok

\* lines 199-206: a field float() rejects raises, caught at line 202.  The
\* strings are given as the fields that split(",") cuts them into.
ParseRaises(weights_str) ==
    \E k \in 1..Len(weights_str) : ~IsFloat(weights_str[k])

ParseWeights(weights_str) ==
    [k \in 1..Len(weights_str) |-> FloatOf(weights_str[k])]

ParseImpacts(impacts_str) ==
    [k \in 1..Len(impacts_str) |-> Strip(impacts_str[k])]

ValidateNoColumnCheck(df, weights, impacts) ==
    IF Len(weights) # Len(impacts)
    THEN "Weights and impacts must have the same length."
    ELSE IF \E k \in 1..Len(impacts) : impacts[k] \notin {"+", "-"}
    THEN "Impacts must be + or - only."
    ELSE None

ValidateNoSymbolCheck(df, weights, impacts) ==
    IF Len(weights) # Len(impacts)
    THEN "Weights and impacts must have the same length."
    ELSE IF df.ncols # Len(weights)
    THEN "Number of weights/impacts must match criteria columns."
    ELSE None

\* lines 208-217: the message of the first check that fails, or None
Validate(df, weights, impacts) ==
    IF Len(weights) # Len(impacts)
    THEN "Weights and impacts must have the same length."
    ELSE IF df.ncols # Len(weights)
    THEN "Number of weights/impacts must match criteria columns."
    ELSE IF \E k \in 1..Len(impacts) : impacts[k] \notin {"+", "-"}
    THEN "Impacts must be + or - only."
    ELSE None

\* lines 223-225: to_csv(index=False): a header line of the column positions,
\* then one line per row: identifier, criterion values, score, rank
ToCsv(table) ==
    IF table = <<>> THEN << <<1, 2, 3>> >>
    ELSE << [c \in 1..(Len(table[1].values) + 3) |-> c] >> \o
         [p \in 1..Len(table) |->
             <<table[p].id>> \o table[p].values \o
             <<table[p].score, table[p].rank>>]

\* lines 142-163; mail is what the environment does: the credentials are
\* "unset", building the message raises ("build_raises": a To header with a
\* line break), the SMTP exchange raises ("smtp_raises"), or it is "sent"
send_email_with_csv(mail) ==
    IF mail = "unset"
    THEN [raised |-> FALSE, ok |-> FALSE,
          msg |-> "Email not sent: MAIL_USERNAME or MAIL_PASSWORD not set."]
    ELSE IF mail = "build_raises"
    THEN [raised |-> TRUE, ok |-> FALSE, msg |-> None]
    ELSE IF mail = "smtp_raises"
    THEN [raised |-> FALSE, ok |-> FALSE, msg |-> "Email error"]
    ELSE [raised |-> FALSE, ok |-> TRUE, msg |-> "Email sent successfully."]

\* What a run of index() leaves: the template's message, error and
\* result_table (has_table: it is not None), the buffer, whether an exception
\* left the handler, and which calls it made.
Outcome(message, error, has_table, result_table, last_csv, escaped, ran, raised, mailed) ==
    [message |-> message, error |-> error, has_table |-> has_table,
     result_table |-> result_table, last_csv |-> last_csv, escaped |-> escaped,
     ran_topsis |-> ran, topsis_raised |-> raised, sent_mail |-> mailed]

OnExceptionEscapes(has_table, result_table, last_csv, raised, mailed) ==
    Outcome(None, FALSE, has_table, result_table, last_csv, TRUE,
            TRUE, raised, mailed)

OnExceptionClearsBuffer(has_table, result_table, last_csv, raised, mailed) ==
    Outcome("Error during TOPSIS calculation", TRUE, has_table, result_table,
            <<>>, FALSE, TRUE, raised, mailed)

\* lines 234-236: result_table and LAST_RESULT_CSV stay as the try block left
\* them
OnException(has_table, result_table, last_csv, raised, mailed) ==
    Outcome("Error during TOPSIS calculation", TRUE, has_table, result_table,
            last_csv, FALSE, TRUE, raised, mailed)

\* lines 228-231
Deliver(result_table, csv, sent) ==
    IF sent.raised THEN OnException(TRUE, result_table, csv, FALSE, TRUE)
    ELSE Outcome(sent.msg, ~sent.ok, TRUE, result_table, csv, FALSE,
                 TRUE, FALSE, TRUE)

AfterTopsisKeepsFirst(result_table, csv, email, mail, last) ==
    IF email # ""
    THEN Deliver(result_table, IF last = <<>> THEN csv ELSE last,
                 send_email_with_csv(mail))
    ELSE Outcome("TOPSIS calculated successfully.", FALSE, TRUE, result_table,
                 IF last = <<>> THEN csv ELSE last, FALSE, TRUE, FALSE, FALSE)

AfterTopsisDropsOnMailFailure(result_table, csv, email, mail, last) ==
    IF email # "" /\ mail # "sent"
    THEN Outcome(send_email_with_csv(mail).msg, TRUE, FALSE, <<>>, last, FALSE,
                 TRUE, FALSE, TRUE)
    ELSE IF email # ""
    THEN Deliver(result_table, csv, send_email_with_csv(mail))
    ELSE Outcome("TOPSIS calculated successfully.", FALSE, TRUE, result_table,
                 csv, FALSE, TRUE, FALSE, FALSE)

\* lines 223-233, run_topsis having returned result_table
AfterTopsis(result_table, csv, email, mail, last) ==
    IF email # ""
    THEN Deliver(result_table, csv, send_email_with_csv(mail))
    ELSE Outcome("TOPSIS calculated successfully.", FALSE, TRUE, result_table,
                 csv, FALSE, TRUE, FALSE, FALSE)

\* lines 219-236
Compute(out, email, mail, last) ==
    IF out.raised THEN OnException(FALSE, <<>>, last, TRUE, FALSE)
    ELSE AfterTopsis(out.table, ToCsv(out.table), email, mail, last)

Rejected(message, last) ==
    Outcome(message, TRUE, FALSE, <<>>, last, FALSE, FALSE, FALSE, FALSE)

\* lines 198-236, the upload having been read into df
Validated(df, weights, impacts, message, email, mail, last) ==
    IF message # None THEN Rejected(message, last)
    ELSE Compute(run_topsis(df, weights, impacts), email, mail, last)

Parsed(df, weights_str, impacts_str, email, mail, last) ==
    IF ParseRaises(weights_str)
    THEN Rejected("Invalid weights or impacts format.", last)
    ELSE Validated(df, ParseWeights(weights_str), ParseImpacts(impacts_str),
             Validate(df, ParseWeights(weights_str), ParseImpacts(impacts_str)),
             email, mail, last)

Uploaded(read, req, last) ==
    IF read.error THEN Rejected(read.message, last)
    ELSE Parsed(read.df, req.weights_str, req.impacts_str, req.email,
                req.mail, last)

\* lines 165-246: the run of index() on request req with the buffer at last
index(req, last) ==
    IF req.method # "POST"
    THEN Outcome(None, FALSE, FALSE, <<>>, last, FALSE, FALSE, FALSE, FALSE)
    ELSE Uploaded(ReadUpload(req.file), req, last)

\* ---------------------------------------------------------------- state
VARIABLES
    arg_df,            \* run_topsis: the DataFrame passed in
    arg_weights,       \* run_topsis: the weights passed in
    arg_impacts,       \* run_topsis: the impacts passed in
    df_out,            \* run_topsis: what the call produced
    pc,                \* run_topsis: "call" before, "return" after
    LAST_RESULT_CSV,   \* line 12: the process-wide buffer
    request,           \* the request the last handler run served
    response,          \* what that run answered
    called,            \* history: the calls that run made
    last_computed      \* history: the CSV of the latest computation that succeeded

vars == <<arg_df, arg_weights, arg_impacts, df_out, pc,
          LAST_RESULT_CSV, request, response, called, last_computed>>

topsis_vars == <<arg_df, arg_weights, arg_impacts, df_out, pc>>

web_vars == <<LAST_RESULT_CSV, request, response, called, last_computed>>

\* ------------------------------------------- inputs of the scorer alone
Values == 0..MaxVal

WeightValues == {0, 1, 2}

ImpactSymbols == {"+", "-"}

Shapes ==
    {sh \in (1..MaxRows) \X (1..MaxCols) : sh[1] * sh[2] <= MaxCells}

Frames ==
    UNION {[ncols : {sh[2]}, rows : [1..sh[1] -> [1..sh[2] -> Values]]] :
              sh \in Shapes}

\* ------------------------------------------------ requests and responses
Csv(ncols, rows) == [kind |-> "csv", ncols |-> ncols, rows |-> rows]

NoFile == [kind |-> "missing", ncols |-> 0, rows |-> <<>>]

Uploads ==
    { NoFile,
      [kind |-> "empty", ncols |-> 0, rows |-> <<>>],
      [kind |-> "garbled", ncols |-> 0, rows |-> <<>>],
      Csv(1, << <<1>>, <<2>> >>),
      Csv(2, << <<1, 2>>, <<2, 1>> >>),
      Csv(1, << <<1>>, <<1>>, <<1>>, <<2>> >>),
      Csv(2, << <<0, 1>>, <<0, 2>> >>),
      Csv(1, << <<1>> >>),
      Csv(1, << <<NonNumeric>>, <<1>> >>),
      Csv(1, <<>>) }

WeightStrs == { <<"1">>, <<"1", "2">>, <<"">> }

ImpactStrs == { <<"+">>, <<" -">>, <<"+", "-">>, <<"+", "*">> }

Emails == {"", "you@example.com"}

MailOutcomes == {"unset", "build_raises", "smtp_raises", "sent"}

Get(route) ==
    [route |-> route, method |-> "GET", file |-> NoFile, weights_str |-> <<"">>,
     impacts_str |-> <<"">>, email |-> "", mail |-> "unset"]

Posts ==
    {r \in [route : {"/"}, method : {"POST"}, file : Uploads,
            weights_str : WeightStrs, impacts_str : ImpactStrs,
            email : Emails, mail : MailOutcomes] :
        r.email = "" => r.mail = "unset"}

IndexRequests == {Get("/")} \cup Posts

NoCalls == [ran_topsis |-> FALSE, topsis_raised |-> FALSE, sent_mail |-> FALSE]

Response(kind, status, message, error, has_table, result_table, body) ==
    [kind |-> kind, status |-> status, message |-> message, error |-> error,
     has_table |-> has_table, result_table |-> result_table, body |-> body]

NoResponse == Response("none", 0, None, FALSE, FALSE, <<>>, <<>>)

NoRequest == Get("none")

WebIdle ==
    /\ LAST_RESULT_CSV = LastResultInit
    /\ request = NoRequest
    /\ response = NoResponse
    /\ called = NoCalls
    /\ last_computed = <<>>

InitTopsis ==
    /\ arg_df \in Frames
    /\ arg_weights \in [1..arg_df.ncols -> WeightValues]
    /\ arg_impacts \in [1..arg_df.ncols -> ImpactSymbols]
    /\ df_out = Raised
    /\ pc = "call"
    /\ WebIdle

CallTopsis ==
    /\ pc = "call"
    /\ df_out' = run_topsis(arg_df, arg_weights, arg_impacts)
    /\ pc' = "return"
    /\ UNCHANGED <<arg_df, arg_weights, arg_impacts, web_vars>>

NextTopsis == CallTopsis

SpecTopsis == InitTopsis /\ [][NextTopsis]_vars

\* ------------------------------------------------------ the web service
\* lines 238-246: render_template_string; an exception that left the handler
\* is Flask's 500 response instead
Render(o) ==
    IF o.escaped THEN Response("error", 500, None, FALSE, FALSE, <<>>, <<>>)
    ELSE Response("page", 200, o.message, o.error, o.has_table,
                  o.result_table, <<>>)

Served(req, o) ==
    /\ request' = req
    /\ response' = Render(o)
    /\ LAST_RESULT_CSV' = o.last_csv
    /\ called' = [ran_topsis |-> o.ran_topsis,
                  topsis_raised |-> o.topsis_raised, sent_mail |-> o.sent_mail]
    /\ last_computed' = IF o.ran_topsis /\ ~o.topsis_raised
                        THEN ToCsv(o.result_table) ELSE last_computed

\* lines 165-246
Index ==
    /\ \E req \in IndexRequests : Served(req, index(req, LAST_RESULT_CSV))
    /\ UNCHANGED topsis_vars

\* lines 248-260
download(last) ==
    IF last = <<>>
    THEN Response("text", 400, "No result available to download.", FALSE,
                  FALSE, <<>>, <<>>)
    ELSE Response("attachment", 200, None, FALSE, FALSE, <<>>, last)

Download ==
    /\ request' = Get("/download")
    /\ response' = download(LAST_RESULT_CSV)
    /\ called' = NoCalls
    /\ UNCHANGED <<LAST_RESULT_CSV, last_computed, topsis_vars>>

Init ==
    /\ WebIdle
    /\ arg_df = NoFrame
    /\ arg_weights = <<>>
    /\ arg_impacts = <<>>
    /\ df_out = Raised
    /\ pc = "idle"

Next == Index \/ Download

Spec == Init /\ [][Next]_vars

\* ======================================================== the scorer's claims
Returned == pc = "return" /\ ~df_out.raised

Table == df_out.table

\* C3: in every result table run_topsis returns, the rank of each option is
\* its standard competition rank on the score, descending: 1 plus the number
\* of options with a strictly greater score
C3_CompetitionRanking ==
    Returned =>
        \A p \in 1..Len(Table) :
            Table[p].rank =
                1 + Cardinality({q \in 1..Len(Table) :
                                    Table[q].score > Table[p].score})

\* C4: in every result table run_topsis returns, an option of rank 1 has a
\* score at least that of every other option
C4_RankOneHasMaxScore ==
    Returned =>
        \A p \in 1..Len(Table) :
            Table[p].rank = 1 =>
                \A q \in 1..Len(Table) : Table[p].score >= Table[q].score

C4_Witness ==
    /\ Returned
    /\ \E p, q \in 1..Len(Table) :
          Table[p].rank = 1 /\ Table[q].score < Table[p].score

\* the data model's invariant and the validation preconditions of section 4.1
ValidInput ==
    /\ NRows(arg_df) >= 1
    /\ arg_df.ncols >= 1
    /\ Len(arg_weights) = arg_df.ncols
    /\ Len(arg_impacts) = arg_df.ncols
    /\ \A j \in 1..Len(arg_weights) : arg_weights[j] > 0
    /\ \A j \in 1..Len(arg_impacts) : arg_impacts[j] \in {"+", "-"}
    /\ \A i \in 1..NRows(arg_df) : \A j \in 1..arg_df.ncols :
          arg_df.rows[i][j] \in Values

InUnitInterval(x) == x # NaN /\ 0 <= x /\ x <= Scale

\* C5, as claimed: for every valid input, every score run_topsis computes at
\* line 134 lies in [0, 1]
C5_EveryScoreInUnitInterval ==
    (pc = "return" /\ ValidInput) =>
        /\ Len(df_out.score) = NRows(arg_df)
        /\ \A i \in 1..Len(df_out.score) : InUnitInterval(df_out.score[i])

\* no criterion column is all zeros, and two options differ in some criterion
NonDegenerate ==
    /\ \A j \in 1..arg_df.ncols : \E i \in 1..NRows(arg_df) :
          arg_df.rows[i][j] # 0
    /\ \E j \in 1..arg_df.ncols : \E i, k \in 1..NRows(arg_df) :
          arg_df.rows[i][j] # arg_df.rows[k][j]

\* s_pos[i] + s_neg[i] is a number other than zero
Defined(i) ==
    /\ df_out.s_pos[i] # NaN
    /\ df_out.s_neg[i] # NaN
    /\ df_out.s_pos[i] + df_out.s_neg[i] > 0

\* C5, amended: for every valid input, the score of each option whose
\* s_pos + s_neg is a non-zero number lies in [0, 1]; that is every option
\* when no criterion column is all zeros and two options differ in some
\* criterion, and otherwise (a zero column, identical options, a single
\* option) every score is nan and run_topsis raises
C5_ScoreInUnitIntervalWhenDefined ==
    (pc = "return" /\ ValidInput) =>
        /\ Len(df_out.score) = NRows(arg_df)
        /\ \A i \in 1..Len(df_out.score) :
              Defined(i) => InUnitInterval(df_out.score[i])
        /\ NonDegenerate =>
              ~df_out.raised /\ \A i \in 1..Len(df_out.score) : Defined(i)
        /\ ~NonDegenerate =>
              /\ df_out.raised
              /\ \A i \in 1..Len(df_out.score) : df_out.score[i] = NaN

C5_Witness ==
    /\ pc = "return" /\ ValidInput /\ NonDegenerate
    /\ \E i \in 1..Len(df_out.score) :
          Defined(i) /\ 0 < df_out.score[i] /\ df_out.score[i] < Scale

\* ======================================================= the handlers' claims
IsPost == request.route = "/" /\ request.method = "POST"

\* the page reports an error: the error flag with a message to show
ReportsError ==
    /\ response.kind = "page"
    /\ response.error
    /\ response.message \notin {None, ""}

\* the upload was read into a DataFrame and every weight field is a number
ReadAndParsed ==
    /\ request.file.kind = "csv"
    /\ \A k \in 1..Len(request.weights_str) :
          request.weights_str[k] \in {"0", "1", "2"}

CountsMatch ==
    /\ Len(request.weights_str) = Len(request.impacts_str)
    /\ Len(request.weights_str) = request.file.ncols

\* C1: a POST whose CSV was read and whose weights and impacts parsed, with
\* the numbers of weights, impacts and criteria columns not all equal, is
\* rejected with an error message, run_topsis is not called and no result
\* table is produced
C1_MismatchRejected ==
    (IsPost /\ ReadAndParsed /\ ~CountsMatch) =>
        ReportsError /\ ~called.ran_topsis /\ ~response.has_table

C1_Witness ==
    /\ IsPost /\ ReadAndParsed /\ ~CountsMatch
    /\ Len(request.weights_str) = Len(request.impacts_str)
    /\ \A k \in 1..Len(request.impacts_str) :
          request.impacts_str[k] \in {"+", "-"}
    /\ response.message = "Number of weights/impacts must match criteria columns."

BadImpactSymbol ==
    \E k \in 1..Len(request.impacts_str) :
        request.impacts_str[k] \notin {"+", "-", " +", " -"}

\* C2: a POST whose impact vector holds a symbol other than "+" or "-" is
\* rejected: an error is reported, run_topsis is not called and no result
\* table is returned
C2_BadImpactRejected ==
    (IsPost /\ BadImpactSymbol) =>
        ReportsError /\ ~called.ran_topsis /\ ~response.has_table

C2_Witness ==
    /\ IsPost /\ BadImpactSymbol /\ ReadAndParsed /\ CountsMatch
    /\ response.message = "Impacts must be + or - only."

Computed == called.ran_topsis /\ ~called.topsis_raised

\* C7: when a POST names an email address and the computation succeeds but
\* the delivery fails (credentials unset, or the SMTP exchange raises), the
\* failure is reported as an error, the page still shows the result table
\* and LAST_RESULT_CSV holds that table's CSV
C7_MailFailureKeepsResult ==
    (IsPost /\ request.email # "" /\ Computed
       /\ request.mail \in {"unset", "smtp_raises"}) =>
        /\ ReportsError
        /\ response.has_table
        /\ Len(response.result_table) = NRows(request.file)
        /\ LAST_RESULT_CSV = ToCsv(response.result_table)

C7_Witness ==
    /\ IsPost /\ request.email # "" /\ Computed
    /\ request.mail = "smtp_raises"
    /\ response.message = "Email error"
    /\ response.has_table

ZeroNormColumn(file) ==
    /\ file.kind = "csv"
    /\ \E j \in 1..file.ncols : \A i \in 1..Len(file.rows) : file.rows[i][j] = 0

\* C8: a POST whose decision matrix has a criterion column of norm zero ends
\* in an error reported to the caller; no result table is returned, and the
\* request stores nothing in LAST_RESULT_CSV; when run_topsis was reached,
\* the error is the computation error
C8_ZeroNormIsAnError ==
    [][(request'.route = "/" /\ request'.method = "POST"
          /\ ZeroNormColumn(request'.file)) =>
         /\ response'.kind = "page"
         /\ response'.error
         /\ response'.message \notin {None, ""}
         /\ ~response'.has_table
         /\ LAST_RESULT_CSV' = LAST_RESULT_CSV
         /\ called'.ran_topsis =>
               /\ called'.topsis_raised
               /\ response'.message = "Error during TOPSIS calculation"]_vars

C8_Witness ==
    /\ IsPost /\ ZeroNormColumn(request.file) /\ Len(request.file.rows) > 0
    /\ called.ran_topsis /\ called.topsis_raised
    /\ response.message = "Error during TOPSIS calculation"
    /\ LAST_RESULT_CSV # <<>>

\* the POSTs that succeed: a result table, and the mail, if one was asked
\* for, sent
Succeeded ==
    /\ Computed
    /\ request.email = "" \/ (request.mail = "sent" /\ called.sent_mail)

C10_FailedRequestKeepsBuffer ==
    [][/\ (request'.route = "/"
             /\ ~(called'.ran_topsis /\ ~called'.topsis_raised)) =>
           LAST_RESULT_CSV' = LAST_RESULT_CSV
       /\ (request'.route = "/download" /\ LAST_RESULT_CSV # <<>>) =>
           /\ response'.body = LAST_RESULT_CSV
           /\ LAST_RESULT_CSV' = LAST_RESULT_CSV]_vars

C10_Witness ==
    /\ request.route = "/"
    /\ ~Computed
    /\ response.error
    /\ LAST_RESULT_CSV # <<>>

====
